---- MODULE Spec2Model ----
(***************************************************************************)
(* Time-series data preparation of the offshore-wells anomaly detection    *)
(* repository: the preprocessing pipeline (TimeSeriesPreprocessor), the     *)
(* sliding-window framer (RollingWindowPreprocessor) and the dataset        *)
(* loader (TimeSeriesDataLoader over ThreeWDataset).                        *)
(*                                                                         *)
(* Three objects, four specifications over one set of variables:            *)
(*   Spec            the preprocessing pipeline                             *)
(*   SpecWindows     the sliding-window framer                              *)
(*   SpecLoader      the loader over the dataset module as written          *)
(*   SpecLoaderData  the loader over a dataset source that yields the       *)
(*                   fold's instances                                       *)
(* A specification leaves the other objects' variables untouched.           *)
(***************************************************************************)
EXTENDS Integers, Sequences, FiniteSets, TLC

\* ------------------------------------------------------------------ bounds
\* Largest number of rows of an array handed to create_windows.
MaxN == 5
\* Largest window_size of a framer.
MaxWindow == 4
\* Largest step_size of a framer.
MaxStep == 3
\* the largest column count of an array handed to create_windows
MaxFeatures == 2

\* Largest number of rows of an array handed to the pipeline.
MaxRows == 2
\* Smallest number of columns of an array handed to the pipeline.
MinCols == 2
\* Largest number of columns of an array handed to the pipeline.
MaxCols == 3
\* Largest n_features and pca_components of a configuration.
MaxK == 2
\* Number of folds of a fold configuration.
NumFolds == 2
\* Largest number of load_threew_problem calls in one behaviour.
MaxLoads == 2
\* Largest number of fit and fit_transform calls in one behaviour.
MaxFits == 2

VARIABLES
    pipeline,   \* the TimeSeriesPreprocessor: its configuration, stages and is_fitted
    call,       \* the last call on the pipeline: its input and what it returned or raised
    nfit,       \* fit and fit_transform calls made so far
    fitted_ok,  \* history: some call of fit has returned (alone or inside fit_transform)
    lastfit,    \* history: the last call of fit (alone or inside fit_transform)
    world,        \* what is outside the loader: the toolkit, the directories, the stored data
    loader,     \* the TimeSeriesDataLoader: its flags, its dataset attribute, its cache
    lcall,      \* the last call on the loader: its arguments and what it returned or raised
    nload,      \* load_threew_problem calls made so far
    framer,     \* the RollingWindowPreprocessor: window_size, step_size, padding
    wcall       \* the last create_windows call: its input and what it returned or raised

pvars == <<pipeline, call, nfit, fitted_ok, lastfit>>

wvars == <<framer, wcall>>

lvars == <<world, loader, lcall, nload>>

vars == <<pipeline, call, nfit, fitted_ok, lastfit, framer, wcall, world, loader, lcall, nload>>

\* The variables of the objects other than the pipeline, than the framer and
\* than the loader.
notP == <<framer, wcall, world, loader, lcall, nload>>

notW == <<pipeline, call, nfit, fitted_ok, lastfit, world, loader, lcall, nload>>

notL == <<pipeline, call, nfit, fitted_ok, lastfit, framer, wcall>>

\* Python's None, where a string is expected (an exception's name, a method name).
None == "None"

\* An optional array: None, or the array v.
NoneArr == [is_none |-> TRUE, v |-> <<>>]

Arr(s) == [is_none |-> FALSE, v |-> s]

\* --------------------------------------------------- TimeSeriesPreprocessor
\* A 2-D array X is known by what the pipeline's stages read of it: its row
\* count n, its column count m, whether any entry is missing (nan), and hv, the
\* number of its columns whose variance is above VarianceThreshold's threshold.
\* No column is missing in every row.
NoData == [n |-> 0, m |-> 0, nan |-> FALSE, hv |-> 0]

Data ==
    {x \in [n : 1..MaxRows, m : MinCols..MaxCols, nan : BOOLEAN, hv : 0..MaxCols] : x.hv <= x.m}

\* The arrays handed to transform and inverse_transform, which read the shape
\* and the missing values only.
Arrays == {x \in Data : x.hv = x.m}

\* The arrays handed to fit.  fit reads the row count only where PCA compares
\* it with n_components, and the variances only where it fits a
\* VarianceThreshold (readsVariance): the training arrays have MaxRows rows, and
\* their variances vary where they are read.
TrainingData(readsVariance) ==
    {x \in Data : x.n = MaxRows /\ (readsVariance \/ x.hv = x.m)}

ScalingMethods == {"standard", "minmax", "robust", "maxabs"}

SelectionMethods == {"mutual_info", "f_classif", "variance"}

\* The constructor's arguments; n_features and pca_components are 0 for None
\* (both are falsy in the guards of fit).
Configs ==
    [imputation_strategy : {"mean"}, scaling_method : ScalingMethods,
     feature_selection_method : SelectionMethods,
     n_features : 0..MaxK, pca_components : 0..MaxK]

\* A stage attribute of the pipeline: None, or an estimator object of class
\* cls, unfitted or fitted on the array fit (with labels when y); k is
\* SelectKBest's k or PCA's n_components.
NoStage == [cls |-> None, fitted |-> FALSE, fit |-> NoData, y |-> FALSE, k |-> 0]

Estimator(cls, k) == [cls |-> cls, fitted |-> FALSE, fit |-> NoData, y |-> FALSE, k |-> k]

Fitted(est, X, withY) == [est EXCEPT !.fitted = TRUE, !.fit = X, !.y = withY]

\* TimeSeriesPreprocessor.__init__
NewPreprocessor(cfg) ==
    [cfg |-> cfg, imputer |-> NoStage, scaler |-> NoStage, feature_selector |-> NoStage,
     pca |-> NoStage, is_fitted |-> FALSE]

\* The outcome of a step of fit: the pipeline after it, and the exception it
\* raised (None when it returned).
Step(self, raised) == [self |-> self, raised |-> raised]

\* _fit_imputer: np.isnan(X).any() decides; the attribute is assigned only then.
fit_imputer(self, X) ==
    IF X.nan
    THEN Step([self EXCEPT !.imputer = Fitted(Estimator("SimpleImputer", 0), X, FALSE)], None)
    ELSE Step(self, None)

\* _fit_scaler: the scalers take missing values in fit.
fit_scaler(self, X) ==
    IF self.cfg.scaling_method = "standard"
    THEN Step([self EXCEPT !.scaler = Fitted(Estimator("StandardScaler", 0), X, FALSE)], None)
    ELSE IF self.cfg.scaling_method = "minmax"
    THEN Step([self EXCEPT !.scaler = Fitted(Estimator("MinMaxScaler", 0), X, FALSE)], None)
    ELSE IF self.cfg.scaling_method = "robust"
    THEN Step([self EXCEPT !.scaler = Fitted(Estimator("RobustScaler", 0), X, FALSE)], None)
    ELSE Step(self, "ValueError")

\* VarianceThreshold(threshold=0.01).fit(X): raises when no column of X is
\* above the threshold.
VarianceThresholdFitRaises(X) == X.hv = 0

\* SelectKBest(score_func, k).fit(X, y): raises on a missing value in X.
SelectKBestFitRaises(X) == X.nan

\* PCA(n_components).fit(X): raises on a missing value in X and when
\* n_components is above min(n_samples, n_features).
PCAFitRaises(X, n_components) ==
    X.nan \/ n_components > X.n \/ n_components > X.m

\* _fit_feature_selector: the attribute is assigned before the estimator is
\* fitted, so a fit that raises leaves the unfitted estimator in place.
fit_feature_selector(self, X, withY) ==
    IF ~withY
    THEN LET est == Estimator("VarianceThreshold", 0)
         IN  IF VarianceThresholdFitRaises(X)
             THEN Step([self EXCEPT !.feature_selector = est], "ValueError")
             ELSE Step([self EXCEPT !.feature_selector = Fitted(est, X, FALSE)], None)
    ELSE IF self.cfg.feature_selection_method \in {"mutual_info", "f_classif"}
    THEN LET est == Estimator("SelectKBest", self.cfg.n_features)
         IN  IF SelectKBestFitRaises(X)
             THEN Step([self EXCEPT !.feature_selector = est], "ValueError")
             ELSE Step([self EXCEPT !.feature_selector = Fitted(est, X, TRUE)], None)
    ELSE Step(self, "ValueError")

\* _fit_pca
fit_pca(self, X) ==
    LET est == Estimator("PCA", self.cfg.pca_components)
    IN  IF PCAFitRaises(X, self.cfg.pca_components)
        THEN Step([self EXCEPT !.pca = est], "ValueError")
        ELSE Step([self EXCEPT !.pca = Fitted(est, X, FALSE)], None)

\* The guard of step 3 of fit: self.n_features and self.n_features < X.shape[1]
SelectionGuard(self, X) ==
    self.cfg.n_features /= 0 /\ self.cfg.n_features < X.m

\* The guard of step 4 of fit: self.pca_components and self.pca_components < X.shape[1]
PCAGuard(self, X) ==
    self.cfg.pca_components /= 0 /\ self.cfg.pca_components < X.m

\* fit with the fitted flag set on entry instead of after the last step.
fit_flag_on_entry(self, X, withY) ==
    LET s0 == [self EXCEPT !.is_fitted = TRUE]
        s1 == fit_imputer(s0, X)
        s2 == fit_scaler(s1.self, X)
        s3 == IF SelectionGuard(s2.self, X)
              THEN fit_feature_selector(s2.self, X, withY)
              ELSE Step(s2.self, None)
        s4 == IF PCAGuard(s3.self, X) THEN fit_pca(s3.self, X) ELSE Step(s3.self, None)
    IN  IF s2.raised /= None THEN s2
        ELSE IF s3.raised /= None THEN s3
        ELSE s4

\* fit(X, y): the four steps on the same X, then is_fitted; an exception ends
\* the call where it is raised.
fit(self, X, withY) ==
    LET s1 == fit_imputer(self, X)
        s2 == fit_scaler(s1.self, X)
        s3 == IF SelectionGuard(s2.self, X)
              THEN fit_feature_selector(s2.self, X, withY)
              ELSE Step(s2.self, None)
        s4 == IF PCAGuard(s3.self, X) THEN fit_pca(s3.self, X) ELSE Step(s3.self, None)
    IN  IF s2.raised /= None THEN s2
        ELSE IF s3.raised /= None THEN s3
        ELSE IF s4.raised /= None THEN s4
        ELSE Step([s4.self EXCEPT !.is_fitted = TRUE], None)

\* What a call returns: the exception raised (None when it returned) and the
\* array returned, known by its rows, columns and whether it holds a missing value.
NoArray == [n |-> 0, m |-> 0, nan |-> FALSE]

Raise(exc) == [raised |-> exc, val |-> NoArray]

Return(v) == [raised |-> None, val |-> v]

ArrayOf(X) == [n |-> X.n, m |-> X.m, nan |-> X.nan]

\* est.transform(v) of one stage.  An unfitted estimator raises NotFittedError,
\* a column count other than the one seen at fit raises ValueError; SelectKBest
\* and PCA raise on a missing value, the imputer fills it, the scalers and
\* VarianceThreshold pass it on.
stage_transform(est, v) ==
    IF est.cls = None THEN Return(v)
    ELSE IF ~est.fitted THEN Raise("NotFittedError")
    ELSE IF v.m /= est.fit.m THEN Raise("ValueError")
    ELSE IF est.cls = "SimpleImputer" THEN Return([v EXCEPT !.nan = FALSE])
    ELSE IF est.cls = "VarianceThreshold" THEN Return([v EXCEPT !.m = est.fit.hv])
    ELSE IF est.cls = "SelectKBest"
    THEN IF v.nan THEN Raise("ValueError") ELSE Return([v EXCEPT !.m = est.k])
    ELSE IF est.cls = "PCA"
    THEN IF v.nan THEN Raise("ValueError") ELSE Return([v EXCEPT !.m = est.k])
    ELSE Return(v)

\* transform(X)
transform(self, X) ==
    IF ~self.is_fitted THEN Raise("ValueError")
    ELSE LET r1 == stage_transform(self.imputer, ArrayOf(X))
             r2 == IF r1.raised = None THEN stage_transform(self.scaler, r1.val) ELSE r1
             r3 == IF r2.raised = None THEN stage_transform(self.feature_selector, r2.val)
                   ELSE r2
             r4 == IF r3.raised = None THEN stage_transform(self.pca, r3.val) ELSE r3
         IN  r4

\* pca.inverse_transform(v): the product with the components, so v needs
\* n_components columns; the result has the columns seen at fit.
pca_inverse(est, v) ==
    IF est.cls = None THEN Return(v)
    ELSE IF ~est.fitted THEN Raise("NotFittedError")
    ELSE IF v.m /= est.k THEN Raise("ValueError")
    ELSE Return([v EXCEPT !.m = est.fit.m])

\* scaler.inverse_transform(v): in-place arithmetic with the per-column
\* statistics, so v needs the columns seen at fit.
scaler_inverse(est, v) ==
    IF est.cls = None THEN Return(v)
    ELSE IF ~est.fitted THEN Raise("NotFittedError")
    ELSE IF v.m /= est.fit.m THEN Raise("ValueError")
    ELSE Return(v)

\* inverse_transform(X)
inverse_transform(self, X) ==
    IF ~self.is_fitted THEN Raise("ValueError")
    ELSE LET r1 == pca_inverse(self.pca, ArrayOf(X))
         IN  IF r1.raised = None THEN scaler_inverse(self.scaler, r1.val) ELSE r1

\* fit_transform on a path of its own: the output is computed from the stages
\* the pipeline had on entry.
fit_transform_own_path(self, X, withY) ==
    [self |-> fit(self, X, withY).self, ret |-> transform(self, X)]

\* fit_transform(X, y) = self.fit(X, y).transform(X)
fit_transform(self, X, withY) ==
    LET f == fit(self, X, withY)
    IN  IF f.raised /= None THEN [self |-> f.self, ret |-> Raise(f.raised)]
        ELSE [self |-> f.self, ret |-> transform(f.self, X)]

\* get_feature_names(): [] before fit; get_support() of an unfitted selector
\* raises.  The value is the number of names returned.
get_feature_names(self) ==
    IF ~self.is_fitted THEN Return(NoArray)
    ELSE IF self.feature_selector.cls /= None /\ ~self.feature_selector.fitted
    THEN Raise("NotFittedError")
    ELSE Return(NoArray)

\* get_preprocessing_info(): explained_variance_ratio_ of an unfitted PCA
\* raises AttributeError.
get_preprocessing_info(self) ==
    IF self.pca.cls /= None /\ self.is_fitted /\ ~self.pca.fitted
    THEN Raise("AttributeError")
    ELSE Return(NoArray)

NoCall == [op |-> "none", X |-> NoData, y |-> FALSE, ret |-> Return(NoArray)]

\* No fit call yet.
NoFit == [X |-> NoData, y |-> FALSE, raised |-> None]

Call(op, X, withY, ret) == [op |-> op, X |-> X, y |-> withY, ret |-> ret]

\* A configuration for the objects a specification does not exercise.
DefaultConfig ==
    [imputation_strategy |-> "mean", scaling_method |-> "robust",
     feature_selection_method |-> "mutual_info", n_features |-> 0, pca_components |-> 0]

\* Whether fit(X, y) fits a VarianceThreshold.
ReadsVariance(self, X, withY) ==
    /\ ~withY
    /\ fit_scaler(self, X).raised = None
    /\ SelectionGuard(self, X)

\* pipeline.fit(X, y)
Fit ==
    /\ nfit < MaxFits
    /\ \E withY \in BOOLEAN : \E X \in TrainingData(TRUE) :
        LET f == fit(pipeline, X, withY)
        IN  /\ X \in TrainingData(ReadsVariance(pipeline, X, withY))
            /\ pipeline' = f.self
            /\ call' = Call("fit", X, withY, Raise(f.raised))
            /\ lastfit' = [X |-> X, y |-> withY, raised |-> f.raised]
            /\ fitted_ok' = (fitted_ok \/ f.raised = None)
    /\ nfit' = nfit + 1
    /\ UNCHANGED notP

\* pipeline.fit_transform(X, y)
FitTransform ==
    /\ nfit < MaxFits
    /\ \E withY \in BOOLEAN : \E X \in TrainingData(TRUE) :
        LET f == fit_transform(pipeline, X, withY)
        IN  /\ X \in TrainingData(ReadsVariance(pipeline, X, withY))
            /\ pipeline' = f.self
            /\ call' = Call("fit_transform", X, withY, f.ret)
            /\ lastfit' = [X |-> X, y |-> withY, raised |-> fit(pipeline, X, withY).raised]
            /\ fitted_ok' = (fitted_ok \/ fit(pipeline, X, withY).raised = None)
    /\ nfit' = nfit + 1
    /\ UNCHANGED notP

\* Transform with the fitted flag set by the call.
Transform_marks_fitted ==
    /\ \E X \in Arrays :
        call' = Call("transform", X, FALSE, transform(pipeline, X))
    /\ pipeline' = [pipeline EXCEPT !.is_fitted = TRUE]
    /\ UNCHANGED <<nfit, fitted_ok, lastfit>>
    /\ UNCHANGED notP

\* pipeline.transform(X)
Transform ==
    /\ \E X \in Arrays :
        call' = Call("transform", X, FALSE, transform(pipeline, X))
    /\ UNCHANGED <<pipeline, nfit, fitted_ok, lastfit>>
    /\ UNCHANGED notP

\* pipeline.inverse_transform(X)
InverseTransform ==
    /\ \E X \in Arrays :
        call' = Call("inverse_transform", X, FALSE, inverse_transform(pipeline, X))
    /\ UNCHANGED <<pipeline, nfit, fitted_ok, lastfit>>
    /\ UNCHANGED notP

\* pipeline.get_feature_names()
GetFeatureNames ==
    /\ call' = Call("get_feature_names", NoData, FALSE, get_feature_names(pipeline))
    /\ UNCHANGED <<pipeline, nfit, fitted_ok, lastfit>>
    /\ UNCHANGED notP

\* pipeline.get_preprocessing_info()
GetPreprocessingInfo ==
    /\ call' = Call("get_preprocessing_info", NoData, FALSE, get_preprocessing_info(pipeline))
    /\ UNCHANGED <<pipeline, nfit, fitted_ok, lastfit>>
    /\ UNCHANGED notP

PNext ==
    \/ Fit
    \/ FitTransform
    \/ Transform
    \/ InverseTransform
    \/ GetFeatureNames
    \/ GetPreprocessingInfo


\* ------------------------------------------------- RollingWindowPreprocessor
\* A 2-D array is known by its row count; row i of X is written i, so that a
\* window is the sequence of the rows of X it holds.  The label array y is one
\* label per row; the label of row i is written i.

Paddings == {"same", "valid", "full", "reflect"}

\* np.pad(X, ((p, p), (0, 0)), mode="edge"): p copies of the first row, the
\* rows, p copies of the last row.
np_pad_edge(n, p) ==
    [i \in 1..(n + 2 * p) |-> IF i <= p THEN 1 ELSE IF i > p + n THEN n ELSE i - p]

\* pad_size_of with the padding of "same" for every padding that pads.
pad_size_half(padding, window_size) ==
    IF padding = "valid" THEN 0 ELSE window_size \div 2

\* pad_size_of with only the name "full" padding in full: any other name pads
\* nothing.
pad_size_known_only(padding, window_size) ==
    IF padding = "same" THEN window_size \div 2
    ELSE IF padding = "full" THEN window_size - 1
    ELSE 0

\* pad_size of create_windows.
pad_size_of(padding, window_size) ==
    IF padding = "same" THEN window_size \div 2
    ELSE IF padding = "valid" THEN 0
    ELSE window_size - 1

\* X_padded of create_windows.
X_padded_of(padding, window_size, n) ==
    IF padding = "valid" THEN [i \in 1..n |-> i]
    ELSE np_pad_edge(n, pad_size_of(padding, window_size))

\* Python's a // b for b > 0 (floor division).
FloorDiv(a, b) ==
    IF a >= 0 THEN a \div b ELSE -((-a + b - 1) \div b)

\* n_windows_of without the window that starts at row 0.
n_windows_less_one(n, pad_size, window_size, step_size) ==
    FloorDiv(n + 2 * pad_size - window_size, step_size)

\* n_windows of create_windows.
n_windows_of(n, pad_size, window_size, step_size) ==
    FloorDiv(n + 2 * pad_size - window_size, step_size) + 1

\* Python's seq[start:stop] on a sequence of length Len(s), 0-based, for
\* 0 <= start <= stop: the bounds are clamped to the sequence.
PySlice(s, start, stop) ==
    LET hi == IF stop > Len(s) THEN Len(s) ELSE stop
        lo == IF start > hi THEN hi ELSE start
    IN  [k \in 1..(hi - lo) |-> s[lo + k]]

\* Python's seq[start:stop:step] for 0 <= start, step >= 1.
PySliceStep(s, start, stop, step) ==
    LET hi == IF stop > Len(s) THEN Len(s) ELSE stop
        cnt == IF start >= hi THEN 0 ELSE ((hi - start - 1) \div step) + 1
    IN  [k \in 1..cnt |-> s[start + (k - 1) * step + 1]]

\* FillWindows with window i starting one step late.
FillWindows_late(Xp, n_windows, window_size, step_size) ==
    [i \in 1..n_windows |-> PySlice(Xp, i * step_size, i * step_size + window_size)]

\* windows[i] = X_padded[start_idx:end_idx] for i in range(n_windows), into an
\* array made by np.zeros((n_windows, window_size, n_features)).
FillWindows(Xp, n_windows, window_size, step_size) ==
    [i \in 1..n_windows |-> PySlice(Xp, (i - 1) * step_size, (i - 1) * step_size + window_size)]

\* The assignment windows[i] = <slice> raises when the slice has a row count
\* that is neither window_size nor 1 (numpy broadcasting).
AssignRaises(ws, window_size) ==
    \E i \in 1..Len(ws) : Len(ws[i]) /= window_size /\ Len(ws[i]) /= 1

\* y_windows of create_windows; y is the label array (one label per row) or None.
y_windows_of(padding, y, pad_size, n_windows, step_size) ==
    IF y.is_none THEN NoneArr
    ELSE IF padding = "same" THEN y
    ELSE Arr(PySliceStep(y.v, pad_size, pad_size + n_windows * step_size, step_size))

\* create_windows(X, y) of a framer f on an array of n rows.
create_windows(f, n, y) ==
    LET p  == pad_size_of(f.padding, f.window_size)
        Xp == X_padded_of(f.padding, f.window_size, n)
        nw == n_windows_of(n, p, f.window_size, f.step_size)
    IN  IF nw < 0
        THEN [raised |-> "ValueError", n_windows |-> nw, windows |-> <<>>, y_windows |-> NoneArr]
        ELSE LET ws == FillWindows(Xp, nw, f.window_size, f.step_size)
             IN  IF AssignRaises(ws, f.window_size)
                 THEN [raised |-> "ValueError", n_windows |-> nw, windows |-> <<>>,
                       y_windows |-> NoneArr]
                 ELSE [raised |-> None, n_windows |-> nw, windows |-> ws,
                       y_windows |-> y_windows_of(f.padding, y, p, nw, f.step_size)]

RECURSIVE ravel(_)
\* The elements of an array in C order: the rows one after the other, the
\* last index changing fastest.
ravel(a) == IF a = <<>> THEN <<>> ELSE Head(a) \o ravel(Tail(a))

\* The row r of an array of n_features columns: its entries, each known by its
\* row and its column (0-based).
RowEntries(r, n_features) == [j \in 1..n_features |-> [row |-> r, col |-> j - 1]]

\* flatten_windows with the entries of a window read feature by feature
\* (column-major).
flatten_windows_by_feature(windows, window_size, n_features) ==
    [i \in 1..Len(windows) |->
        ravel([j \in 1..n_features |->
                  [t \in 1..window_size |-> RowEntries(windows[i][t], n_features)[j]]])]

\* flatten_windows(windows) on an array of shape
\* (Len(windows), window_size, n_features):
\* windows.reshape(n_windows, window_size * n_features).
flatten_windows(windows, window_size, n_features) ==
    [i \in 1..Len(windows) |->
        ravel([t \in 1..window_size |-> RowEntries(windows[i][t], n_features)])]

NoWCall ==
    [op |-> "none", n |-> 0, n_features |-> 0, y |-> NoneArr,
     ret |-> [raised |-> None, n_windows |-> 0, windows |-> <<>>, y_windows |-> NoneArr],
     flattened |-> <<>>]

\* One call framer.create_windows(X, y) with X of n rows and m columns, y
\* given or omitted.
CreateWindows ==
    \E n \in 1..MaxN, m \in 1..MaxFeatures, withY \in BOOLEAN :
        LET y == IF withY THEN Arr([i \in 1..n |-> i]) ELSE NoneArr
        IN  /\ wcall' = [NoWCall EXCEPT !.op = "create_windows", !.n = n,
                                        !.n_features = m, !.y = y,
                                        !.ret = create_windows(framer, n, y)]
            /\ UNCHANGED framer
            /\ UNCHANGED notW

\* One call framer.flatten_windows(windows) on the windows the last
\* create_windows call returned.
FlattenWindows ==
    /\ wcall.op = "create_windows"
    /\ wcall.ret.raised = None
    /\ wcall' = [wcall EXCEPT !.op = "flatten_windows",
                              !.flattened = flatten_windows(wcall.ret.windows,
                                                            framer.window_size,
                                                            wcall.n_features)]
    /\ UNCHANGED framer
    /\ UNCHANGED notW

WNext ==
    \/ CreateWindows
    \/ FlattenWindows

\* ------------------------------------- ThreeWDataset, TimeSeriesDataLoader
\* The one element of a singleton: The({F(v) : v \in {e}}) is F(e) with e
\* evaluated once.
The(S) == CHOOSE x \in S : TRUE

\* A name (problem_name, fold_config) is the sequence of the parts that its
\* underscores separate: "q_f" is <<"q", "f">>.  Joining names with "_" is the
\* concatenation of their parts.
ProblemNames == {<<"p">>, <<"p", "q">>}

FoldConfigs == {<<"f">>, <<"q", "f">>, <<"g">>}

\* The fold configurations that have a <fold_config>.csv under PATH_FOLDS.
FoldFiles == {<<"f">>, <<"q", "f">>}

\* fold_index arguments: below -len(folds), the negative indices of a Python
\* sequence, the valid ones, and len(folds).
FoldIndices == (-(NumFolds + 1))..NumFolds

\* test_size arguments, in tenths: 0.5 and 1.0.
TestSizes == {5, 10}

\* What is outside the loader: whether the 3W toolkit imports
\* (THREEW_AVAILABLE), whether PATH_DATASET, PATH_FOLDS and 3W/problems exist,
\* what EventFolds.__getitem__ of the toolkit does with a negative index, and
\* which load_instances serves the loader: the function as written, or a
\* source that yields the stored instances of a fold.
Envs ==
    [threew_available : BOOLEAN, dataset_exists : BOOLEAN, folds_exists : BOOLEAN,
     problems_dir : BOOLEAN, negative_index : {"wraps", "raises"},
     instances : {"as_written", "stored"}]

\* is_threew_available()
is_threew_available(env) == env.threew_available

\* ThreeWDataset.__init__: the exception it raises, None when it returns.
ThreeWDataset_init(env) ==
    IF ~env.threew_available THEN "ImportError"
    ELSE IF ~env.dataset_exists THEN "FileNotFoundError"
    ELSE IF ~env.folds_exists THEN "FileNotFoundError"
    ELSE None

\* Whether ThreeWDataset() can be constructed.
DatasetBuilds(env) == ThreeWDataset_init(env) = None

\* Where no ThreeWDataset can be built nothing reads problems_dir and
\* negative_index: they are held at one value.
ReadEnv(env) ==
    \/ DatasetBuilds(env)
    \/ (env.negative_index = "raises" /\ ~env.problems_dir)

\* The empty _data_cache.
EmptyCache == [k \in {} |-> {}]

\* TimeSeriesDataLoader.__init__(use_threew, cache_data).  threew_dataset is
\* "unset" when the attribute was never assigned: the except branch of the
\* constructor sets use_threew only.
NewLoader(env, use_threew, cache_data) ==
    LET use == use_threew /\ is_threew_available(env)
        exc == ThreeWDataset_init(env)
    IN  [use_threew |-> use /\ exc = None,
         cache_data |-> cache_data,
         data_cache |-> EmptyCache,
         threew_dataset |-> IF ~use THEN "None"
                            ELSE IF exc = None THEN "ThreeWDataset" ELSE "unset",
         scaler_fit |-> <<>>,
         scaler_fitted |-> FALSE]

\* ThreeWDataset.list_available_problems(): the directories under 3W/problems
\* whose name does not start with "_".
dataset_list_available_problems(env) ==
    IF ~env.problems_dir THEN <<>> ELSE <<<<"p">>, <<"p", "q">>>>

\* TimeSeriesDataLoader.list_available_problems(): reading an attribute that
\* was never assigned raises AttributeError.
list_available_problems(self, env) ==
    IF self.threew_dataset = "unset" THEN [raised |-> "AttributeError", val |-> <<>>]
    ELSE IF self.threew_dataset = "ThreeWDataset"
    THEN [raised |-> None, val |-> dataset_list_available_problems(env)]
    ELSE [raised |-> None, val |-> <<>>]

\* get_event_folds: None without a fold file, else the EventFolds of the file.
NoFolds == [is_none |-> TRUE, config |-> <<>>, len |-> 0]

get_event_folds(env, fold_config) ==
    IF fold_config \notin FoldFiles THEN NoFolds
    ELSE [is_none |-> FALSE, config |-> fold_config, len |-> NumFolds]

\* folds[fold_index] of the toolkit's EventFolds, reached with
\* fold_index < len(folds): a valid index gives its fold; a negative index
\* gives the fold counted from the end where __getitem__ follows Python's
\* sequences, and raises IndexError otherwise.
NoFold == [config |-> <<>>, index |-> -1]

folds_getitem(env, folds, fold_index) ==
    IF fold_index >= 0
    THEN [raised |-> None, fold |-> [config |-> folds.config, index |-> fold_index]]
    ELSE IF fold_index >= -folds.len /\ env.negative_index = "wraps"
    THEN [raised |-> None, fold |-> [config |-> folds.config, index |-> folds.len + fold_index]]
    ELSE [raised |-> "IndexError", fold |-> NoFold]

\* The rows stored for one part ("train", "test") of a fold; a row is known by
\* its fold, its part and its place in the part.
StoredRows(fold, part, n) ==
    [i \in 1..n |-> [config |-> fold.config, index |-> fold.index, part |-> part, i |-> i]]

\* An instance: its feature rows (columns 1: of the table) and its label
\* column (column 0).
Instance(rows, labels) == [X |-> rows, y |-> labels]

\* The label column of the train rows stored for a fold: two classes of two
\* rows, and in fold 1 a class of a single row.
train_labels(fold) == IF fold.index = 1 THEN <<0, 0, 0, 1>> ELSE <<0, 0, 1, 1>>

\* The instances a fold lists, in the fold's order: two train instances, one
\* test instance.
stored_instances(fold, part) ==
    IF part = "train"
    THEN LET labels == train_labels(fold)
             n      == Len(labels)
             rows   == StoredRows(fold, part, n)
         IN  << Instance(SubSeq(rows, 1, 2), SubSeq(labels, 1, 2)),
                Instance(SubSeq(rows, 3, n), SubSeq(labels, 3, n)) >>
    ELSE << Instance(StoredRows(fold, part, 2), <<0, 1>>) >>

\* load_instances reading the instances the fold lists.
load_instances_reads(env, fold, part) == stored_instances(fold, part)

\* load_instances(instances_path) as written returns an empty list.
load_instances(env, fold, part) ==
    IF env.instances = "as_written" THEN <<>> ELSE stored_instances(fold, part)

\* What load_instances_for_problem returns: None, or the four lists of
\* per-instance arrays; fold is the fold it read.
NoResult ==
    [is_none |-> TRUE, fold |-> NoFold, X_train |-> <<>>, y_train |-> <<>>,
     X_test |-> <<>>, y_test |-> <<>>]

\* ThreeWDataset.load_instances_for_problem: every exception is caught and None
\* returned.
load_instances_for_problem(env, problem_name, fold_config, fold_index) ==
    IF get_event_folds(env, fold_config).is_none THEN NoResult
    ELSE IF fold_index >= get_event_folds(env, fold_config).len THEN NoResult
    ELSE The({ IF got.raised /= None THEN NoResult
               ELSE The({ [is_none |-> FALSE, fold |-> got.fold,
                           X_train |-> [i \in 1..Len(tr) |-> tr[i].X],
                           y_train |-> [i \in 1..Len(tr) |-> tr[i].y],
                           X_test |-> [i \in 1..Len(te) |-> te[i].X],
                           y_test |-> [i \in 1..Len(te) |-> te[i].y]] :
                          tr \in { load_instances(env, got.fold, "train") },
                          te \in { load_instances(env, got.fold, "test") } }) :
               got \in { folds_getitem(env, get_event_folds(env, fold_config), fold_index) } })

RECURSIVE Flatten(_)
\* The arrays of a list, one after the other.
Flatten(arrays) ==
    IF arrays = <<>> THEN <<>> ELSE Head(arrays) \o Flatten(Tail(arrays))

\* np.concatenate(arrays, axis=0): raises ValueError on an empty list.
np_concatenate(arrays) ==
    IF Len(arrays) = 0 THEN [raised |-> "ValueError", val |-> <<>>]
    ELSE [raised |-> None, val |-> Flatten(arrays)]

\* A feature matrix of a bundle: its rows, and the rows the scaler that
\* transformed it was fitted on (<<>> when it was not scaled).
Matrix(rows, scaled_by) == [rows |-> rows, scaled_by |-> scaled_by]

\* The number of distinct labels of y, and the size of its smallest class.
Classes(y) == {y[i] : i \in 1..Len(y)}

ClassSize(y, c) == Cardinality({i \in 1..Len(y) : y[i] = c})

\* ceil(test_size * n) for test_size in tenths.
CeilTenths(test_size, n) == (test_size * n + 9) \div 10

\* Whether train_test_split(X, y, test_size, random_state=42, stratify=y)
\* raises: a fraction outside (0, 1), an empty train part, a class of fewer
\* than two rows, or a part with fewer rows than classes.
SplitRaises(y, test_size) ==
    LET n      == Len(y)
        n_test == CeilTenths(test_size, n)
    IN  \/ test_size >= 10
        \/ test_size <= 0
        \/ n - n_test = 0
        \/ \E c \in Classes(y) : ClassSize(y, c) < 2
        \/ n - n_test < Cardinality(Classes(y))
        \/ n_test < Cardinality(Classes(y))

\* The places 1..n in the order the shuffle draws them: random_state is fixed,
\* so every call draws the same order.
Shuffled(n) == [i \in 1..n |-> n + 1 - i]

\* The rows of the class of place p that the shuffle draws no later than p.
DrawRank(y, p) ==
    Cardinality({q \in 1..Len(y) : y[q] = y[p] /\ Shuffled(Len(y))[q] <= Shuffled(Len(y))[p]})

\* The places of the validation part and of the final train part: stratify=y
\* gives every class its share of the validation part, and the rows of both
\* parts come in the order of the shuffle.
SplitPlaces(y, test_size) ==
    LET n        == Len(y)
        n_test   == CeilTenths(test_size, n)
        order    == Shuffled(n)
        InVal(p) == DrawRank(y, p) <= (ClassSize(y, y[p]) * n_test) \div n
        InTrain(p) == ~InVal(p)
    IN  [val |-> SelectSeq(order, InVal), train |-> SelectSeq(order, InTrain)]

Take(s, places) == [i \in 1..Len(places) |-> s[places[i]]]

\* The bundle a load returns, or None.
NoBundle ==
    [is_none |-> TRUE, X_train |-> Matrix(<<>>, <<>>), y_train |-> <<>>,
     X_val |-> Matrix(<<>>, <<>>), y_val |-> <<>>, X_test |-> Matrix(<<>>, <<>>),
     y_test |-> <<>>, problem_name |-> <<>>, fold_config |-> <<>>, fold_index |-> 0,
     normalized |-> FALSE]

\* cache_key = f"{problem_name}_{fold_config}_{fold_index}"
cache_key(problem_name, fold_config, fold_index) ==
    [parts |-> problem_name \o fold_config, index |-> fold_index]

\* What a load does: the loader after it, what it returns, the exception that
\* leaves the call (None: the call returns), and what it did on the way: the
\* fold the dataset read (NoFold: load_instances_for_problem returned None or
\* was not called), whether it asked the dataset for instances, fitted a
\* scaler, split.
LoadOutcome(self, ret, fold, reloaded, refit, resplit) ==
    [self |-> self, ret |-> ret, raised |-> None, fold |-> fold, reloaded |-> reloaded,
     refit |-> refit, resplit |-> resplit]

\* normalize_data with the scaler fitted on the train and the test rows.
normalize_data_on_all(self, X_train, X_test) ==
    [self |-> [self EXCEPT !.scaler_fit = X_train \o X_test, !.scaler_fitted = TRUE],
     X_train |-> Matrix(X_train, X_train \o X_test),
     X_test |-> Matrix(X_test, X_train \o X_test)]

\* _normalize_data(X_train, X_test) with the default method "standard": the
\* scaler is fitted on X_train and transforms both.
normalize_data(self, X_train, X_test) ==
    [self |-> [self EXCEPT !.scaler_fit = X_train, !.scaler_fitted = TRUE],
     X_train |-> Matrix(X_train, X_train),
     X_test |-> Matrix(X_test, X_train)]

\* The bundle assembled from the (normalized) train and test arrays and the
\* places the split drew.
Bundle(Xtr, ytr, Xte, yte, places, problem_name, fold_config, fold_index, normalize) ==
    [is_none |-> FALSE,
     X_train |-> Matrix(Take(Xtr.rows, places.train), Xtr.scaled_by),
     y_train |-> Take(ytr, places.train),
     X_val |-> Matrix(Take(Xtr.rows, places.val), Xtr.scaled_by),
     y_val |-> Take(ytr, places.val),
     X_test |-> Xte,
     y_test |-> yte,
     problem_name |-> problem_name,
     fold_config |-> fold_config,
     fold_index |-> fold_index,
     normalized |-> normalize]

\* self._data_cache[cache_key] = data
cache_put(self, key, bundle) ==
    [self EXCEPT !.data_cache =
        [k \in DOMAIN self.data_cache \cup {key} |->
            IF k = key THEN bundle ELSE self.data_cache[k]]]

\* load_split without the except branch of load_threew_problem: the exception
\* of train_test_split leaves the call.
load_split_uncaught(self, fold, Xtr, ytr, Xte, yte, problem_name, fold_config, fold_index, normalize, test_size) ==
    IF SplitRaises(ytr, test_size)
    THEN [LoadOutcome(self, NoBundle, fold, TRUE, normalize, FALSE) EXCEPT !.raised = "ValueError"]
    ELSE LoadOutcome(self, NoBundle, fold, TRUE, normalize, TRUE)

\* load_split with an except branch that empties the cache.
load_split_drops_cache(self, fold, Xtr, ytr, Xte, yte, problem_name, fold_config, fold_index, normalize, test_size) ==
    IF SplitRaises(ytr, test_size)
    THEN LoadOutcome([self EXCEPT !.data_cache = EmptyCache], NoBundle, fold, TRUE, normalize, FALSE)
    ELSE The({ LoadOutcome(IF self.cache_data
                           THEN cache_put(self, cache_key(problem_name, fold_config, fold_index), bundle)
                           ELSE self,
                           bundle, fold, TRUE, normalize, TRUE) :
               bundle \in { Bundle(Xtr, ytr, Xte, yte, SplitPlaces(ytr, test_size),
                                   problem_name, fold_config, fold_index, normalize) } })

\* load_threew_problem from the split on: train_test_split, the bundle, the
\* cache.  self is the loader after the normalization.
load_split(self, fold, Xtr, ytr, Xte, yte, problem_name, fold_config, fold_index, normalize, test_size) ==
    IF SplitRaises(ytr, test_size)
    THEN LoadOutcome(self, NoBundle, fold, TRUE, normalize, FALSE)
    ELSE The({ LoadOutcome(IF self.cache_data
                           THEN cache_put(self, cache_key(problem_name, fold_config, fold_index), bundle)
                           ELSE self,
                           bundle, fold, TRUE, normalize, TRUE) :
               bundle \in { Bundle(Xtr, ytr, Xte, yte, SplitPlaces(ytr, test_size),
                                   problem_name, fold_config, fold_index, normalize) } })

\* load_threew_problem from the concatenation on.
load_arrays(self, result, problem_name, fold_config, fold_index, normalize, test_size) ==
    IF \/ np_concatenate(result.X_train).raised /= None
       \/ np_concatenate(result.y_train).raised /= None
       \/ np_concatenate(result.X_test).raised /= None
       \/ np_concatenate(result.y_test).raised /= None
    THEN LoadOutcome(self, NoBundle, result.fold, TRUE, FALSE, FALSE)
    ELSE IF normalize
    THEN The({ load_split(norm.self, result.fold, norm.X_train, Flatten(result.y_train),
                          norm.X_test, Flatten(result.y_test), problem_name, fold_config,
                          fold_index, normalize, test_size) :
               norm \in { normalize_data(self, Flatten(result.X_train),
                                         Flatten(result.X_test)) } })
    ELSE load_split(self, result.fold, Matrix(Flatten(result.X_train), <<>>),
                    Flatten(result.y_train), Matrix(Flatten(result.X_test), <<>>),
                    Flatten(result.y_test), problem_name, fold_config, fold_index,
                    normalize, test_size)

\* load_threew_problem(problem_name, fold_config, fold_index, normalize,
\* test_size): the body of the try block ends in the except branch, which
\* returns None, on any exception.
load_threew_problem(self, env, problem_name, fold_config, fold_index, normalize, test_size) ==
    IF ~self.use_threew \/ self.threew_dataset = "None"
    THEN LoadOutcome(self, NoBundle, NoFold, FALSE, FALSE, FALSE)
    ELSE The({ IF result.is_none
               THEN LoadOutcome(self, NoBundle, NoFold, TRUE, FALSE, FALSE)
               ELSE load_arrays(self, result, problem_name, fold_config, fold_index,
                                normalize, test_size) :
               result \in { load_instances_for_problem(env, problem_name, fold_config,
                                                       fold_index) } })

\* get_cached_data(cache_key): self._data_cache.get(cache_key)
get_cached_data(self, key) ==
    IF key \in DOMAIN self.data_cache THEN self.data_cache[key] ELSE NoBundle

\* clear_cache()
clear_cache(self) == [self EXCEPT !.data_cache = EmptyCache]

\* The keys get_cached_data is asked for: those of the folds that exist.
CacheKeys ==
    {cache_key(p, c, i) : p \in ProblemNames, c \in FoldFiles, i \in 0..(NumFolds - 1)}

NoLoadArgs ==
    [problem_name |-> <<>>, fold_config |-> <<>>, fold_index |-> 0, normalize |-> FALSE,
     test_size |-> 0]

\* The environment of the specifications that do not exercise the loader.
DefaultEnv ==
    [threew_available |-> FALSE, dataset_exists |-> FALSE, folds_exists |-> FALSE,
     problems_dir |-> FALSE, negative_index |-> "raises", instances |-> "as_written"]

\* The last call: before is the loader as a load call found it.
NoLCall ==
    [op |-> "none", args |-> NoLoadArgs, key |-> cache_key(<<>>, <<>>, 0), raised |-> None,
     ret |-> NoBundle, names |-> <<>>, fold |-> NoFold, hit |-> FALSE, reloaded |-> FALSE,
     refit |-> FALSE, resplit |-> FALSE, before |-> NewLoader(DefaultEnv, FALSE, FALSE)]

\* loader.load_threew_problem(...)
Load ==
    /\ nload < MaxLoads
    /\ \E p \in ProblemNames, c \in FoldConfigs, i \in FoldIndices, nz \in BOOLEAN,
          ts \in TestSizes :
        \E out \in {load_threew_problem(loader, world, p, c, i, nz, ts)} :
            /\ loader' = out.self
            /\ lcall' = [NoLCall EXCEPT
                   !.op = "load",
                   !.args = [problem_name |-> p, fold_config |-> c, fold_index |-> i,
                             normalize |-> nz, test_size |-> ts],
                   !.key = cache_key(p, c, i),
                   !.raised = out.raised,
                   !.ret = out.ret,
                   !.fold = out.fold,
                   !.hit = (cache_key(p, c, i) \in DOMAIN loader.data_cache),
                   !.reloaded = out.reloaded,
                   !.refit = out.refit,
                   !.resplit = out.resplit,
                   !.before = loader]
    /\ nload' = nload + 1
    /\ UNCHANGED world
    /\ UNCHANGED notL

\* loader.list_available_problems()
ListAvailableProblems ==
    /\ LET r == list_available_problems(loader, world)
       IN  lcall' = [NoLCall EXCEPT !.op = "list_available_problems",
                                    !.raised = r.raised, !.names = r.val]
    /\ UNCHANGED <<world, loader, nload>>
    /\ UNCHANGED notL

\* loader.get_cached_data(cache_key)
GetCachedData ==
    /\ \E key \in CacheKeys :
        lcall' = [NoLCall EXCEPT !.op = "get_cached_data", !.key = key,
                                 !.ret = get_cached_data(loader, key)]
    /\ UNCHANGED <<world, loader, nload>>
    /\ UNCHANGED notL

\* loader.clear_cache()
ClearCache ==
    /\ loader' = clear_cache(loader)
    /\ lcall' = [NoLCall EXCEPT !.op = "clear_cache"]
    /\ UNCHANGED <<world, nload>>
    /\ UNCHANGED notL

LNext ==
    \/ Load
    \/ ListAvailableProblems
    \/ GetCachedData
    \/ ClearCache

\* --------------------------------------------------------- specifications
\* The framer of the specifications that do not exercise it.
DefaultFramer == [window_size |-> 1, step_size |-> 1, padding |-> "same"]


\* The pipeline: constructed with any configuration, then any calls.
Init ==
    /\ \E cfg \in Configs : pipeline = NewPreprocessor(cfg)
    /\ call = NoCall
    /\ nfit = 0
    /\ fitted_ok = FALSE
    /\ lastfit = NoFit
    /\ framer = DefaultFramer
    /\ wcall = NoWCall
    /\ world = DefaultEnv
    /\ loader = NewLoader(DefaultEnv, TRUE, TRUE)
    /\ lcall = NoLCall
    /\ nload = 0

Spec == Init /\ [][PNext]_vars

\* The framer: constructed with any configuration, then any create_windows calls.
InitWindows ==
    /\ framer \in [window_size : 1..MaxWindow, step_size : 1..MaxStep, padding : Paddings]
    /\ wcall = NoWCall
    /\ pipeline = NewPreprocessor(DefaultConfig)
    /\ call = NoCall
    /\ nfit = 0
    /\ fitted_ok = FALSE
    /\ lastfit = NoFit
    /\ world = DefaultEnv
    /\ loader = NewLoader(DefaultEnv, TRUE, TRUE)
    /\ lcall = NoLCall
    /\ nload = 0

SpecWindows == InitWindows /\ [][WNext]_vars

\* The loader over the dataset module as written: constructed in any
\* environment with any arguments, then any calls.
InitLoader ==
    /\ world \in {e \in Envs : ReadEnv(e) /\ e.instances = "as_written"}
    /\ \E use_threew \in BOOLEAN, cache_data \in BOOLEAN :
        loader = NewLoader(world, use_threew, cache_data)
    /\ lcall = NoLCall
    /\ nload = 0
    /\ pipeline = NewPreprocessor(DefaultConfig)
    /\ call = NoCall
    /\ nfit = 0
    /\ fitted_ok = FALSE
    /\ lastfit = NoFit
    /\ framer = DefaultFramer
    /\ wcall = NoWCall

SpecLoader == InitLoader /\ [][LNext]_vars

\* The loader over a dataset source that yields the stored instances of the
\* fold: the toolkit and the directories are there.
InitLoaderData ==
    /\ world \in {e \in Envs : DatasetBuilds(e) /\ e.problems_dir /\ e.instances = "stored"}
    /\ \E cache_data \in BOOLEAN : loader = NewLoader(world, TRUE, cache_data)
    /\ lcall = NoLCall
    /\ nload = 0
    /\ pipeline = NewPreprocessor(DefaultConfig)
    /\ call = NoCall
    /\ nfit = 0
    /\ fitted_ok = FALSE
    /\ lastfit = NoFit
    /\ framer = DefaultFramer
    /\ wcall = NoWCall

SpecLoaderData == InitLoaderData /\ [][LNext]_vars

\* ------------------------------------------------------------------ claims
\* The stages of a pipeline.
Stages(self) == <<self.imputer, self.scaler, self.feature_selector, self.pca>>

\* The configuration names valid method names.
ValidMethods(cfg) ==
    /\ cfg.scaling_method \in {"standard", "minmax", "robust"}
    /\ cfg.feature_selection_method \in {"mutual_info", "f_classif"}

\* C1: after a fit call, whatever calls came before it, the four stages are
\* those a single fit of the same (X, y) leaves on a freshly constructed
\* pipeline of the same configuration.
C1_RefitReplacesAllState ==
    call.op = "fit" =>
        Stages(pipeline) = Stages(fit(NewPreprocessor(pipeline.cfg), call.X, call.y).self)

\* C5: fit_transform(X, y) with labels, n_features = k < m and
\* pca_components = c < k, returns an n x c array without missing values.
C5_FitTransformSelectsAndReduces ==
    ( /\ call.op = "fit_transform"
      /\ call.y
      /\ ValidMethods(pipeline.cfg)
      /\ pipeline.cfg.pca_components >= 1
      /\ pipeline.cfg.pca_components < pipeline.cfg.n_features
      /\ pipeline.cfg.n_features < call.X.m )
    => ( /\ call.ret.raised = None
         /\ call.ret.val = [n |-> call.X.n, m |-> pipeline.cfg.pca_components, nan |-> FALSE] )

\* The column count the configuration names as final.
ConfiguredColumns(cfg, m) ==
    IF cfg.pca_components /= 0 THEN cfg.pca_components
    ELSE IF cfg.n_features /= 0 THEN cfg.n_features
    ELSE m

\* C6: on a fitted pipeline, transform(X) of an X with the column count seen
\* at fit returns as many rows as X has and the configured final column count
\* (stated here for arrays without missing values, at fit and at transform).
C6_TransformShape ==
    ( /\ call.op = "transform"
      /\ pipeline.is_fitted
      /\ lastfit.raised = None
      /\ ~lastfit.X.nan
      /\ ~call.X.nan
      /\ call.X.m = lastfit.X.m )
    => ( /\ call.ret.raised = None
         /\ call.ret.val.n = call.X.n
         /\ call.ret.val.m = ConfiguredColumns(pipeline.cfg, call.X.m) )

\* C10: while no call of fit has returned, transform and inverse_transform
\* raise and return no data.
C10_NotFittedRaises ==
    (~fitted_ok /\ call.op \in {"transform", "inverse_transform"})
    => (call.ret.raised = "ValueError" /\ call.ret.val = NoArray)

\* C10 witness: transform raised after a fit call that failed past the imputer.
C10_Witness ==
    /\ ~fitted_ok
    /\ nfit >= 1
    /\ pipeline.imputer.fitted
    /\ call.op = "transform"
    /\ call.ret.raised = "ValueError"

\* C3: with padding "same" and step_size 1, create_windows returns as many
\* windows as X has rows.
C3_SameKeepsRowCount ==
    (wcall.op = "create_windows" /\ framer.padding = "same" /\ framer.step_size = 1)
    => ( /\ wcall.ret.raised = None
         /\ wcall.ret.n_windows = wcall.n
         /\ Len(wcall.ret.windows) = wcall.n )

\* C4: with padding "valid", create_windows on fewer rows than window_size
\* raises and returns nothing.
C4_ValidTooShortRaises ==
    (wcall.op = "create_windows" /\ framer.padding = "valid" /\ wcall.n < framer.window_size)
    => wcall.ret.raised /= None

\* C7: on a loader whose dataset source is unavailable (toolkit not importable,
\* use_threew false, or ThreeWDataset() failing), list_available_problems
\* returns an empty list and load_threew_problem returns None; neither raises.
C7_UnavailableDegrades ==
    ~loader.use_threew =>
        /\ lcall.op = "list_available_problems" => (lcall.raised = None /\ lcall.names = <<>>)
        /\ lcall.op = "load" => (lcall.raised = None /\ lcall.ret.is_none)

\* C8: a load with a fold_index outside 0..k-1 (negative ones included) or with
\* a fold_config without fold file returns None, does not raise, and reads no
\* fold.
C8_OutOfRangeReadsNoFold ==
    ( /\ lcall.op = "load"
      /\ \/ lcall.args.fold_index \notin 0..(NumFolds - 1)
         \/ lcall.args.fold_config \notin FoldFiles )
    => ( /\ lcall.raised = None
         /\ lcall.ret.is_none
         /\ lcall.fold = NoFold )

\* A load reached train_test_split with a test_size of 1 or more, or with a
\* class too small to stratify at the requested fraction.
C9_InfeasibleSplit ==
    /\ lcall.op = "load"
    /\ world.instances = "stored"
    /\ lcall.fold /= NoFold
    /\ SplitRaises(train_labels(lcall.fold), lcall.args.test_size)

InvalidScaling(cfg) == cfg.scaling_method \notin {"standard", "minmax", "robust"}

\* The configuration names a selection method _fit_feature_selector does not
\* know.
InvalidSelection(cfg) == cfg.feature_selection_method \notin {"mutual_info", "f_classif"}

\* C11: a fit call on a pipeline whose scaling_method is invalid, or whose
\* feature_selection_method is invalid while n_features asks for a selection
\* among the columns of X, raises and does not leave the pipeline fitted, for
\* y given or omitted.
C11_InvalidMethodRaises ==
    ( /\ call.op \in {"fit", "fit_transform"}
      /\ \/ InvalidScaling(pipeline.cfg)
         \/ (InvalidSelection(pipeline.cfg) /\ SelectionGuard(pipeline, call.X)) )
    => (lastfit.raised /= None /\ ~pipeline.is_fitted)

\* The array handed to the last call is the output of transform on some array.
IsTransformOutput(self, X) ==
    \E X0 \in Arrays : transform(self, X0) = Return(ArrayOf(X))

\* C12: on a fitted pipeline, inverse_transform of an output of transform
\* completes, whichever stages are fitted, and returns as many rows, with the
\* columns the scaler was fitted on.
C12_InverseOfTransformCompletes ==
    ( /\ call.op = "inverse_transform"
      /\ pipeline.is_fitted
      /\ IsTransformOutput(pipeline, call.X) )
    => ( /\ call.ret.raised = None
         /\ call.ret.val.n = call.X.n
         /\ call.ret.val.m = pipeline.scaler.fit.m )

\* The padding is one the framer documents ("valid" or "full"), labels were
\* given, and the call returned.
LabelledCall(padding) ==
    /\ wcall.op = "create_windows"
    /\ framer.padding = padding
    /\ ~wcall.y.is_none
    /\ wcall.ret.raised = None

\* The labels returned are one per window, each the label of the first row of
\* its window (a row and its label are written alike; a padding row is a copy
\* of the row it replicates).
LabelsFollowWindowStarts ==
    /\ ~wcall.ret.y_windows.is_none
    /\ Len(wcall.ret.y_windows.v) = wcall.ret.n_windows
    /\ \A i \in 1..Len(wcall.ret.y_windows.v) :
        i <= Len(wcall.ret.windows) => wcall.ret.y_windows.v[i] = wcall.ret.windows[i][1]

\* C13: for padding "valid" and "full" with labels given, create_windows
\* returns one label per window, the label of the first row the window holds.
C13_OneLabelPerWindow ==
    (LabelledCall("valid") \/ LabelledCall("full")) => LabelsFollowWindowStarts

\* C14: for padding "same" with labels given, create_windows returns y
\* unchanged and as many labels as windows.
C14_SameLabelsAligned ==
    LabelledCall("same")
    => ( /\ wcall.ret.y_windows = wcall.y
         /\ Len(wcall.ret.y_windows.v) = wcall.ret.n_windows
         /\ Len(wcall.ret.y_windows.v) = Len(wcall.ret.windows) )

\* C15: for padding "valid" and n >= window_size, create_windows returns
\* floor((n - window_size) / step_size) + 1 windows.
C15_ValidWindowCount ==
    (wcall.op = "create_windows" /\ framer.padding = "valid" /\ wcall.n >= framer.window_size)
    => ( /\ wcall.ret.raised = None
         /\ wcall.ret.n_windows = ((wcall.n - framer.window_size) \div framer.step_size) + 1
         /\ Len(wcall.ret.windows) = wcall.ret.n_windows )

\* C15 witness: a call with a step above 1 that does not divide
\* n - window_size returned more than one window.
C15_Witness ==
    /\ wcall.op = "create_windows"
    /\ framer.padding = "valid"
    /\ framer.step_size = 2
    /\ framer.window_size = 2
    /\ wcall.n = 5
    /\ Len(wcall.ret.windows) = 2

\* C16: for padding "full" and step_size 1, create_windows pads
\* window_size - 1 copies of the first row before and of the last row after
\* the array, and returns n + window_size - 1 windows.
C16_FullWindowCount ==
    (wcall.op = "create_windows" /\ framer.padding = "full" /\ framer.step_size = 1)
    => ( /\ wcall.ret.raised = None
         /\ wcall.ret.n_windows = wcall.n + framer.window_size - 1
         /\ Len(wcall.ret.windows) = wcall.n + framer.window_size - 1
         /\ wcall.ret.windows[1] = [k \in 1..framer.window_size |-> 1]
         /\ wcall.ret.windows[wcall.ret.n_windows] = [k \in 1..framer.window_size |-> wcall.n] )

\* C16 witness: an array of 3 rows under window_size 4 gave 6 windows.
C16_Witness ==
    /\ wcall.op = "create_windows"
    /\ framer.padding = "full"
    /\ framer.step_size = 1
    /\ framer.window_size = 4
    /\ wcall.n = 3
    /\ Len(wcall.ret.windows) = 6

\* C17: whatever the padding, when create_windows returns, window i is rows
\* [i*step_size, i*step_size + window_size) of the padded array, the range
\* lies inside the padded array, and there are n_windows windows of
\* window_size rows.
C17_WindowsArePaddedRanges ==
    (wcall.op = "create_windows" /\ wcall.ret.raised = None)
    => LET Xp == X_padded_of(framer.padding, framer.window_size, wcall.n)
       IN  /\ Len(wcall.ret.windows) = wcall.ret.n_windows
           /\ \A i \in 1..Len(wcall.ret.windows) :
               /\ (i - 1) * framer.step_size + framer.window_size <= Len(Xp)
               /\ Len(wcall.ret.windows[i]) = framer.window_size
               /\ wcall.ret.windows[i] =
                      SubSeq(Xp, (i - 1) * framer.step_size + 1,
                             (i - 1) * framer.step_size + framer.window_size)

\* C17 witness: padding "same", window_size 3, step_size 2 on 5 rows gave 3
\* windows, the last one ending on the padding row.
C17_Witness ==
    /\ wcall.op = "create_windows"
    /\ framer = [window_size |-> 3, step_size |-> 2, padding |-> "same"]
    /\ wcall.n = 5
    /\ wcall.ret.raised = None
    /\ wcall.ret.windows = <<<<1, 1, 2>>, <<2, 3, 4>>, <<4, 5, 5>>>>

\* The fold spec a bundle was loaded for.
Triple(bundle) == <<bundle.problem_name, bundle.fold_config, bundle.fold_index>>

TrainRows(fold) == StoredRows(fold, "train", Len(train_labels(fold)))

C20_TransformDependsOnLastFitOnly ==
    (call.op = "transform" /\ nfit >= 1 /\ lastfit.raised = None)
    => call.ret = transform(fit(NewPreprocessor(pipeline.cfg), lastfit.X, lastfit.y).self, call.X)

\* The rows of a matrix keep the order the fold lists them in: within a part
\* the stored places increase.
InFoldOrder(rows) ==
    \A a, b \in 1..Len(rows) : a < b => rows[a].i < rows[b].i

\* The labels of a part are those stored beside its rows.
LabelsParallel(rows, labels, stored) ==
    /\ Len(labels) = Len(rows)
    /\ \A a \in 1..Len(rows) : labels[a] = stored[rows[a].i]

C22_FitTransformIsFitThenTransform ==
    [][ call'.op = "fit_transform"
        => /\ pipeline' = fit(pipeline, call'.X, call'.y).self
           /\ call'.ret = IF fit(pipeline, call'.X, call'.y).raised /= None
                          THEN Raise(fit(pipeline, call'.X, call'.y).raised)
                          ELSE transform(fit(pipeline, call'.X, call'.y).self, call'.X) ]_vars

\* C22 witness: a fit_transform call fitted a selector and returned fewer
\* columns than it was given.
C22_Witness ==
    /\ call.op = "fit_transform"
    /\ call.ret.raised = None
    /\ pipeline.is_fitted
    /\ pipeline.feature_selector.fitted
    /\ pipeline.feature_selector.fit = call.X
    /\ call.ret.val.m < call.X.m

\* The 3-D array a create_windows call returned: window i, time step t,
\* column j.
WindowEntries(windows, n_features) ==
    [i \in 1..Len(windows) |->
        [t \in 1..Len(windows[i]) |-> RowEntries(windows[i][t], n_features)]]

\* flattened.reshape(n_windows, window_size, n_features): row t of window i is
\* the t-th run of n_features entries of flattened[i].
ReshapeBack(flattened, window_size, n_features) ==
    [i \in 1..Len(flattened) |->
        [t \in 1..window_size |->
            SubSeq(flattened[i], (t - 1) * n_features + 1, t * n_features)]]

\* C23: flatten_windows maps a (n_windows, window_size, n_features) window
\* set to n_windows rows of window_size * n_features entries with
\* flattened[i][t * n_features + j] = windows[i][t][j], so that reshaping back
\* gives the window set.
C23_FlattenKeepsEntries ==
    wcall.op = "flatten_windows"
    => LET ws == framer.window_size
           nf == wcall.n_features
           w  == WindowEntries(wcall.ret.windows, nf)
       IN  /\ Len(wcall.flattened) = wcall.ret.n_windows
           /\ \A i \in 1..Len(wcall.flattened) :
               /\ Len(wcall.flattened[i]) = ws * nf
               /\ \A t \in 0..(ws - 1), j \in 0..(nf - 1) :
                   wcall.flattened[i][t * nf + j + 1] = w[i][t + 1][j + 1]
           /\ ReshapeBack(wcall.flattened, ws, nf) = w

\* C23 witness: windows of three rows and two columns were flattened.
C23_Witness ==
    /\ wcall.op = "flatten_windows"
    /\ framer.window_size = 3
    /\ wcall.n_features = 2
    /\ Len(wcall.flattened) >= 2
    /\ wcall.flattened[2][4] = [row |-> wcall.ret.windows[2][2], col |-> 1]
    /\ wcall.ret.windows[2][2] /= wcall.ret.windows[2][3]

\* The operations that read the fitted state.
ReadOnlyOps == {"transform", "inverse_transform", "get_feature_names", "get_preprocessing_info"}

\* C24: a transform, inverse_transform, get_feature_names or
\* get_preprocessing_info call, whether it returns or raises, leaves the four
\* stages and the fitted flag as they were.
C24_ReadOnlyCallsKeepFittedState ==
    [][ call'.op \in ReadOnlyOps
        => /\ Stages(pipeline') = Stages(pipeline)
           /\ pipeline'.is_fitted = pipeline.is_fitted ]_vars

\* C24 witness: a transform call raised on a fitted pipeline, which is still
\* fitted and holds its fitted scaler.
C24_Witness ==
    /\ call.op = "transform"
    /\ call.ret.raised = "ValueError"
    /\ pipeline.is_fitted
    /\ pipeline.scaler.fitted
    /\ fitted_ok

\* The column count the selection stage leaves: the selected count when a
\* selector was fitted, the input column count otherwise.
ColumnsAfterSelection(self, X) ==
    IF ~self.feature_selector.fitted THEN X.m
    ELSE IF self.feature_selector.cls = "VarianceThreshold" THEN self.feature_selector.fit.hv
    ELSE self.feature_selector.k

\* C25: a fit that returns on a freshly constructed pipeline has fitted the
\* reduction stage exactly when pca_components is configured and is strictly
\* below the column count left after the selection stage; otherwise the
\* pipeline has no reduction stage.
C25_ReductionFittedBelowSelectedCount ==
    (call.op = "fit" /\ nfit = 1 /\ call.ret.raised = None)
    => ( pipeline.pca.fitted
         <=> ( /\ pipeline.cfg.pca_components /= 0
               /\ pipeline.cfg.pca_components < ColumnsAfterSelection(pipeline, call.X) ) )

\* C26: a fit call that raises leaves the four stages and the fitted flag as
\* they were before the call.
C26_FailedFitKeepsFittedState ==
    [][ (call'.op \in {"fit", "fit_transform"} /\ lastfit'.raised /= None)
        => /\ Stages(pipeline') = Stages(pipeline)
           /\ pipeline'.is_fitted = pipeline.is_fitted ]_vars

\* C27: with load_instances as written, every load_threew_problem call
\* returns None without raising, so that after any calls the cache is empty
\* and get_cached_data returns None for every key.
C27_StubLoadsNothing ==
    /\ loader.data_cache = EmptyCache
    /\ \A key \in CacheKeys : get_cached_data(loader, key).is_none
    /\ lcall.op = "load" => (lcall.ret.is_none /\ lcall.raised = None)
    /\ lcall.op = "get_cached_data" => lcall.ret.is_none

\* C27 witness: a load read an existing fold, asked the dataset for its
\* instances and returned None.
C27_Witness ==
    /\ lcall.op = "load"
    /\ lcall.reloaded
    /\ lcall.fold /= NoFold
    /\ lcall.fold.index = lcall.args.fold_index
    /\ loader.cache_data
    /\ lcall.ret.is_none
    /\ loader.data_cache = EmptyCache

\* The load call just made was a successful load of (p, c, i).
LoadedTriple(lc, p, c, i) ==
    /\ lc.op = "load"
    /\ ~lc.ret.is_none
    /\ lc.args.problem_name = p
    /\ lc.args.fold_config = c
    /\ lc.args.fold_index = i

Seen(out) == <<out.ret, out.raised, out.self.data_cache>>

C30_OtherPaddingIsFull ==
    (wcall.op = "create_windows" /\ framer.padding \notin {"same", "valid"})
    => ( /\ wcall.ret.raised = None
         /\ wcall.ret = create_windows([framer EXCEPT !.padding = "full"], wcall.n, wcall.y)
         /\ wcall.ret.n_windows
            = FloorDiv(wcall.n + framer.window_size - 2, framer.step_size) + 1
         /\ wcall.ret.windows
            = FillWindows(np_pad_edge(wcall.n, framer.window_size - 1), wcall.ret.n_windows,
                          framer.window_size, framer.step_size) )

\* C30 witness: a framer built with an unrecognized padding name returned
\* windows that start with window_size copies of the first row.
C30_Witness ==
    /\ wcall.op = "create_windows"
    /\ framer.padding = "reflect"
    /\ framer.window_size = 3
    /\ wcall.n = 2
    /\ wcall.ret.raised = None
    /\ Len(wcall.ret.windows) >= 2
    /\ wcall.ret.windows[1] = <<1, 1, 1>>
    /\ wcall.ret.windows[2] = <<1, 1, 2>>

====
